---- MODULE Spec2Model ----
(***************************************************************************)
(* A model of beatrice.py: the cast search GeneratePossibleCasts with its  *)
(* helpers (ScoreCast, CastHasRequiredActors, NextUnfilledRole,            *)
(* CopyPurgingActor) and the effective-convenience table built by main.    *)
(*                                                                         *)
(* Numbers.  Skill and convenience are floats in the program.  The model   *)
(* keeps them as exact fractions: a base convenience c of actors.csv       *)
(* stands for c / ConvDen, an effective convenience e of the table main    *)
(* builds for e / ConvScale, a skill s for s / SkillDen.  A score is kept  *)
(* as an integer in units of 1 / Unit^n, n the number of roles of the      *)
(* cast, so that any two scores of one run compare exactly as the          *)
(* fractions they stand for.                                               *)
(***************************************************************************)
EXTENDS Integers, Sequences, FiniteSets, TLC

(***************************************************************************)
(* Bounds of the model.                                                    *)
(***************************************************************************)
\* base conveniences are (ConvDen - 1) / ConvDen and 1
ConvDen == 2
\* skills are 1 / SkillDen, 2 / SkillDen, ... MaxSkill / SkillDen: up to 1
\* and one step above it
MaxSkill == 3

SkillDen == MaxSkill - 1
\* effective conveniences are kept in tenths of 1 / ConvDen
ConvScale == 10 * ConvDen
Unit == ConvScale * SkillDen

ConvVals == {ConvDen - 1, ConvDen}
SkillVals == 1..MaxSkill

\* The role names of cast.csv, in lexicographic order, and the actors.
RoleNames == <<"A", "B">>
AllRoles == {RoleNames[k] : k \in DOMAIN RoleNames}
Actors == {"x", "y"}
None == "None"

(***************************************************************************)
(* Program constants (beatrice.py lines 12-13), in tenths.                 *)
(***************************************************************************)
SWITCHING_ROLE_PENALTY == 1
ALREADY_BOOKED_BENEFIT == 2

VARIABLES
  pc,                      \* where main is: "validate", "convenience", "call",
                           \* "search", "done", "nocasts", "error"
  current_cast,            \* cast.csv: role -> booked actor or None
  scheduled_actors,        \* the booked actors of cast.csv
  actor_convenience,       \* actors.csv: actor -> base convenience
  role_actor_skill,        \* actors.csv: role -> actor -> skill
  role_actors_in,          \* role_actors as read from actors.csv
  role_actor,              \* role_actor[d]: the table object frame d received;
                           \* role_actor[1] is main's role_actors
  role_actor_convenience,  \* role -> actor -> effective convenience
  stack,                   \* the active calls of GeneratePossibleCasts
  possible_casts,          \* main's possible_casts
  best_score               \* main's best_score

vars == <<pc, current_cast, scheduled_actors, actor_convenience,
          role_actor_skill, role_actors_in, role_actor,
          role_actor_convenience, stack, possible_casts, best_score>>

\* what main reads from its files and never writes again
inputs == <<current_cast, scheduled_actors, actor_convenience,
            role_actor_skill, role_actors_in>>

roles == DOMAIN current_cast

----------------------------------------------------------------------------
(* Helpers on sequences and sets *)

Range(s) == {s[i] : i \in DOMAIN s}

Max(a, b) == IF a >= b THEN a ELSE b

RECURSIVE Pow(_, _)
Pow(b, n) == IF n = 0 THEN 1 ELSE b * Pow(b, n - 1)

\* the place of a role name in lexicographic order
Rank(role) == CHOOSE k \in DOMAIN RoleNames : RoleNames[k] = role

\* sorted(S)[0] for a non-empty set S of role names
FirstSorted(S) == CHOOSE r \in S : \A q \in S : Rank(r) <= Rank(q)

\* list.remove(actor): drops the first occurrence only
RemoveFirst(s, a) ==
  IF a \notin Range(s) THEN s
  ELSE LET k == CHOOSE i \in DOMAIN s :
                  s[i] = a /\ \A j \in 1..(i - 1) : s[j] # a
       IN  SubSeq(s, 1, k - 1) \o SubSeq(s, k + 1, Len(s))

----------------------------------------------------------------------------
(* ScoreCast, lines 38-51 *)

RECURSIVE Product(_, _)
\* the product of convenience * skill over the filled roles R of cast
Product(cast, R) ==
  IF R = {} THEN 1
  ELSE LET role == CHOOSE r \in R : TRUE
           actor == cast[role]
           convenience == role_actor_convenience[role][actor]
           skill == role_actor_skill[role][actor]
       IN  (convenience * skill) * Product(cast, R \ {role})

Filled(cast) == {role \in DOMAIN cast : cast[role] # None}

ScoreCast(cast) ==
  IF Filled(cast) = {} THEN 0
  ELSE Product(cast, Filled(cast))
         * Pow(Unit, Cardinality(DOMAIN cast) - Cardinality(Filled(cast)))

\* a mutant of CastHasRequiredActors: the booked actors are not looked for
CastHasAnyActors(cast, required_actors) == TRUE

(* CastHasRequiredActors, lines 57-61 *)
CastHasRequiredActors(cast, required_actors) ==
  \A actor \in Range(required_actors) : actor \in Range(cast)

(* NextUnfilledRole, lines 64-71 *)
NextUnfilledRole(cast) ==
  LET empty_roles == {role \in DOMAIN cast : cast[role] = None}
  IN  IF empty_roles # {} THEN FirstSorted(empty_roles) ELSE None

\* a mutant of CopyPurgingActor: the copy keeps the actor
CopyKeepingActor(table, actor) == table

(* CopyPurgingActor, lines 76-81 *)
CopyPurgingActor(table, actor) ==
  [role \in DOMAIN table |-> RemoveFirst(table[role], actor)]

----------------------------------------------------------------------------
(* GeneratePossibleCasts, lines 96-134 *)

\* line 114 reads the skills from role_actor_convenience
ActorSkill(role) == role_actor_convenience[role]

\* the sort key of lines 115-116
SortKey(role, actor) == role_actor_convenience[role][actor] * ActorSkill(role)[actor]

RECURSIVE InsertDesc(_, _, _)
\* actor goes after every element whose key is >= its own (the sort is stable)
InsertDesc(sorted, role, actor) ==
  IF sorted = <<>> THEN <<actor>>
  ELSE IF SortKey(role, Head(sorted)) >= SortKey(role, actor)
       THEN <<Head(sorted)>> \o InsertDesc(Tail(sorted), role, actor)
       ELSE <<actor>> \o sorted

RECURSIVE SortDesc(_, _, _)
SortDesc(actors, role, n) ==
  IF n = 0 THEN <<>>
  ELSE InsertDesc(SortDesc(actors, role, n - 1), role, actors[n])

\* actors.sort(key=..., reverse=True), lines 115-117
SortActors(actors, role) == SortDesc(actors, role, Len(actors))

\* a mutant of AssignRole: the copy of the cast is left as it was
AssignNothing(cast, role, actor) == cast

\* lines 119-120
AssignRole(cast, role, actor) == [cast EXCEPT ![role] = actor]

\* a mutant of Pruned: a candidate that ties with the best is dropped too
PrunedOrTied(cast_copy, best) == ScoreCast(cast_copy) <= best

\* a mutant of Pruned: no candidate is dropped
NeverPruned(cast_copy, best) == FALSE

\* the test of lines 121-124
Pruned(cast_copy, best) == ScoreCast(cast_copy) < best

\* a mutant of MergeBest: the best score of the children is dropped
KeepOwnBest(best, child_best) == best

\* line 133
MergeBest(best, child_best) == Max(best, child_best)

Frame(cast, best, table) ==
  [cast |-> cast, pc |-> "entry", role |-> None, i |-> 0,
   possible_casts |-> <<>>, best_score |-> best,
   best_score_in |-> best, role_actor_in |-> table]

Depth == Len(stack)
Top == stack[Depth]
\* the list `actors` of frame d: an alias of role_actor[role] of its table
ActorsOf(d) == role_actor[d][stack[d].role]

\* a mutant of RoleRejected: a role without actors is let through
RoleRejectedIfMiscast(role) ==
  /\ current_cast[role] # None
  /\ current_cast[role] \notin DOMAIN role_actor_skill[role]

\* the tests of lines 282-293 for one role of cast.csv: the role has no
\* actor in actors.csv, or its booked actor does not play it
RoleRejected(role) ==
  \/ role_actor[1][role] = <<>>
  \/ /\ current_cast[role] # None
     /\ current_cast[role] \notin DOMAIN role_actor_skill[role]

\* main, lines 281-293
Validate ==
  /\ pc = "validate"
  /\ pc' = IF \E role \in roles : RoleRejected(role)
           THEN "error" ELSE "convenience"
  /\ UNCHANGED <<inputs, role_actor, role_actor_convenience, stack,
                 possible_casts, best_score>>

\* a mutant of EffectiveConvenience: the base convenience is not rescaled
EffectiveConvenienceUnscaled(role, actor) ==
  LET convenience == 10 * actor_convenience[actor]
  IN  IF current_cast[role] = None THEN convenience
      ELSE IF current_cast[role] = actor
           THEN convenience + ALREADY_BOOKED_BENEFIT * ConvDen
           ELSE convenience - SWITCHING_ROLE_PENALTY * ConvDen

\* lines 313-325, for one role and one actor
EffectiveConvenience(role, actor) ==
  LET base == actor_convenience[actor]
      \* lines 313-315, in units of 1 / ConvScale
      convenience ==
        base * (10 - (ALREADY_BOOKED_BENEFIT + SWITCHING_ROLE_PENALTY))
          + SWITCHING_ROLE_PENALTY * ConvDen
  IN  IF current_cast[role] = None THEN convenience
      ELSE IF current_cast[role] = actor
           THEN convenience + ALREADY_BOOKED_BENEFIT * ConvDen
           ELSE convenience - SWITCHING_ROLE_PENALTY * ConvDen

\* main, lines 307-325
BuildConvenience ==
  /\ pc = "convenience"
  /\ IF \E role \in roles : \E actor \in DOMAIN role_actor_skill[role] :
          actor \notin DOMAIN actor_convenience
     THEN /\ pc' = "error"
          /\ UNCHANGED role_actor_convenience
     ELSE /\ pc' = "call"
          /\ role_actor_convenience' =
               [role \in roles |->
                 [actor \in DOMAIN role_actor_skill[role] |->
                   EffectiveConvenience(role, actor)]]
  /\ UNCHANGED <<inputs, role_actor, stack, possible_casts, best_score>>

\* main, lines 329-332
Call ==
  /\ pc = "call"
  /\ pc' = "search"
  /\ stack' = <<Frame([role \in roles |-> None], 0, role_actor[1])>>
  /\ UNCHANGED <<inputs, role_actor, role_actor_convenience, possible_casts,
                 best_score>>

\* lines 102-109: the cast is full
BaseCase ==
  /\ pc = "search" /\ Top.pc = "entry"
  /\ NextUnfilledRole(Top.cast) = None
  /\ stack' = [stack EXCEPT ![Depth] =
       IF CastHasRequiredActors(Top.cast, scheduled_actors)
       THEN [@ EXCEPT !.pc = "return",
                      !.possible_casts = Append(@, Top.cast),
                      !.best_score = Max(@, ScoreCast(Top.cast))]
       ELSE [@ EXCEPT !.pc = "return"]]
  /\ UNCHANGED <<pc, inputs, role_actor, role_actor_convenience,
                 possible_casts, best_score>>

\* lines 102-103, 110-117: pick the role, sort its actors in place
Expand ==
  /\ pc = "search" /\ Top.pc = "entry"
  /\ NextUnfilledRole(Top.cast) # None
  /\ LET role == NextUnfilledRole(Top.cast)
     IN  /\ role_actor' = [role_actor EXCEPT ![Depth][role] = SortActors(@, role)]
         /\ stack' = [stack EXCEPT ![Depth].role = role,
                                   ![Depth].i = 1,
                                   ![Depth].pc = "loop"]
  /\ UNCHANGED <<pc, inputs, role_actor_convenience, possible_casts,
                 best_score>>

\* lines 118-124: the candidate scores below the running best
Prune ==
  /\ pc = "search" /\ Top.pc = "loop"
  /\ Top.i <= Len(ActorsOf(Depth))
  /\ Pruned(AssignRole(Top.cast, Top.role, ActorsOf(Depth)[Top.i]), Top.best_score)
  /\ stack' = [stack EXCEPT ![Depth].i = @ + 1]
  /\ UNCHANGED <<pc, inputs, role_actor, role_actor_convenience,
                 possible_casts, best_score>>

\* lines 118-131: the candidate is kept, the search recurses
Recurse ==
  /\ pc = "search" /\ Top.pc = "loop"
  /\ Top.i <= Len(ActorsOf(Depth))
  /\ LET actor == ActorsOf(Depth)[Top.i]
         cast_copy == AssignRole(Top.cast, Top.role, actor)
         role_actor_copy == CopyPurgingActor(role_actor[Depth], actor)
     IN  /\ ~Pruned(cast_copy, Top.best_score)
         /\ role_actor' = SubSeq(role_actor, 1, Depth) \o <<role_actor_copy>>
         /\ stack' = Append(stack, Frame(cast_copy, Top.best_score, role_actor_copy))
  /\ UNCHANGED <<pc, inputs, role_actor_convenience, possible_casts,
                 best_score>>

Returning(f, d) ==
  \/ f.pc = "return"
  \/ f.pc = "loop" /\ f.i > Len(ActorsOf(d))

\* line 134 in the callee, lines 132-133 in the caller
Return ==
  /\ pc = "search" /\ Depth > 1
  /\ Returning(Top, Depth)
  /\ stack' = [SubSeq(stack, 1, Depth - 1) EXCEPT ![Depth - 1] =
       [@ EXCEPT !.possible_casts = @ \o Top.possible_casts,
                 !.best_score = MergeBest(@, Top.best_score),
                 !.i = @ + 1]]
  /\ role_actor' = SubSeq(role_actor, 1, Depth)
  /\ UNCHANGED <<pc, inputs, role_actor_convenience, possible_casts,
                 best_score>>

\* line 134 of the outermost call, main lines 332-335
ReturnToMain ==
  /\ pc = "search" /\ Depth = 1
  /\ Returning(Top, Depth)
  /\ possible_casts' = Top.possible_casts
  /\ best_score' = Top.best_score
  /\ pc' = IF Len(Top.possible_casts) = 0 THEN "nocasts" ELSE "done"
  /\ stack' = <<>>
  /\ role_actor' = SubSeq(role_actor, 1, 1)
  /\ UNCHANGED <<inputs, role_actor_convenience>>

----------------------------------------------------------------------------
(* What main has read from cast.csv and actors.csv, lines 172-277 *)

\* lists of actors without repetition (main rejects an actor listed twice
\* for a role, lines 273-275)
ActorLists ==
  {s \in UNION {[1..n -> Actors] : n \in 0..Cardinality(Actors)} :
     \A j, k \in DOMAIN s : j # k => s[j] # s[k]}

ValueMaps(V) == UNION {[S -> V] : S \in SUBSET Actors}

RECURSIVE Booked(_, _)
\* lines 197-200: the booked actors, in the order of the rows of cast.csv
Booked(cast, k) ==
  IF k = 0 THEN <<>>
  ELSE LET role == RoleNames[k]
       IN  IF role \in DOMAIN cast /\ cast[role] # None
           THEN Append(Booked(cast, k - 1), cast[role])
           ELSE Booked(cast, k - 1)

Init ==
  /\ pc = "validate"
  /\ current_cast \in UNION {[R -> Actors \cup {None}] : R \in SUBSET AllRoles}
  /\ scheduled_actors = Booked(current_cast, Len(RoleNames))
  /\ actor_convenience \in ValueMaps(ConvVals)
  /\ role_actors_in \in [roles -> ActorLists]
  /\ role_actor = <<role_actors_in>>
  /\ role_actor_skill \in
       {t \in [roles -> ValueMaps(SkillVals)] :
          \A r \in roles : DOMAIN t[r] = Range(role_actors_in[r])}
  /\ role_actor_convenience = <<>>
  /\ stack = <<>>
  /\ possible_casts = <<>>
  /\ best_score = 0

Next ==
  \/ Validate
  \/ BuildConvenience
  \/ Call
  \/ BaseCase
  \/ Expand
  \/ Prune
  \/ Recurse
  \/ Return
  \/ ReturnToMain

Spec == Init /\ [][Next]_vars

----------------------------------------------------------------------------
(* Vocabulary of the properties *)

\* main has left the search
Done == pc \in {"done", "nocasts"}

\* role_actor_convenience has been built
Built == pc \in {"call", "search", "done", "nocasts"}

Vacant(cast) == {role \in DOMAIN cast : cast[role] = None}

Injective(cast) ==
  \A r, q \in DOMAIN cast :
    (r # q /\ cast[r] # None /\ cast[q] # None) => cast[r] # cast[q]

\* the complete casts that give every role a distinct actor of the role's
\* list in actors.csv and hold every booked actor
ValidCasts ==
  {cast \in [roles -> Actors] :
     /\ \A r \in roles : cast[r] \in Range(role_actors_in[r])
     /\ Injective(cast)
     /\ \A actor \in Range(scheduled_actors) : \E r \in roles : cast[r] = actor}

BestValidScore ==
  IF ValidCasts = {} THEN 0
  ELSE CHOOSE m \in {ScoreCast(cast) : cast \in ValidCasts} :
         \A cast \in ValidCasts : ScoreCast(cast) <= m

\* every skill and every effective convenience is at most 1
FactorsAtMostOne ==
  \A r \in roles : \A actor \in DOMAIN role_actor_skill[r] :
    /\ role_actor_skill[r][actor] <= SkillDen
    /\ role_actor_convenience[r][actor] <= ConvScale

\* cast cut down to its first k roles in lexicographic order
Prefix(cast, k) ==
  [r \in DOMAIN cast |->
    IF Cardinality({q \in DOMAIN cast : Rank(q) <= Rank(r)}) <= k
    THEN cast[r] ELSE None]

\* frame d is iterating over an empty list of actors
DeadEnd(d) == stack[d].pc = "loop" /\ ActorsOf(d) = <<>>

RECURSIVE AcceptedUpTo(_)
\* the casts accepted so far, oldest first
AcceptedUpTo(d) ==
  IF d = 0 THEN <<>> ELSE AcceptedUpTo(d - 1) \o stack[d].possible_casts

Accepted == IF pc = "search" THEN AcceptedUpTo(Depth) ELSE possible_casts

RunningBest == IF pc = "search" THEN Top.best_score ELSE best_score

NonDecreasing(casts) ==
  \A j, k \in DOMAIN casts : j < k => ScoreCast(casts[j]) <= ScoreCast(casts[k])

----------------------------------------------------------------------------
(* C1 *)

\* C1, as claimed: whatever the positive factors, values above 1 included,
\* the returned best score is the maximum score over all valid complete
\* casts and a cast with that score is returned.
C1_OptimumKeptAnyFactors ==
  Done => /\ best_score = BestValidScore
          /\ ValidCasts # {} =>
               \E k \in DOMAIN possible_casts :
                 ScoreCast(possible_casts[k]) = best_score

\* C1, amended: when every skill and every effective convenience lies in
\* (0, 1], the returned best score is the maximum score over all valid
\* complete casts (0 if there is none), and if there is one, a cast with
\* that score is returned.
C1_OptimumKept ==
  (Done /\ FactorsAtMostOne) => C1_OptimumKeptAnyFactors

\* a search with factors in (0, 1] that pruned a valid cast and returned
C1_Witness ==
  /\ Done /\ FactorsAtMostOne
  /\ best_score > 0
  /\ \E cast \in ValidCasts : cast \notin Range(possible_casts)

(* C2 *)

C3_RequiredActorsPresent ==
  /\ \A k \in DOMAIN Accepted : \A actor \in Range(scheduled_actors) :
       Cardinality({r \in roles : Accepted[k][r] = actor}) = 1
  /\ \A d \in DOMAIN stack :
       (/\ stack[d].pc = "return"
        /\ \E actor \in Range(scheduled_actors) :
             \A r \in roles : stack[d].cast[r] # actor)
       => /\ stack[d].possible_casts = <<>>
          /\ stack[d].best_score = stack[d].best_score_in

\* a full cast without a booked actor has just been turned down
C3_Witness ==
  /\ pc = "search"
  /\ Top.pc = "return"
  /\ Vacant(Top.cast) = {}
  /\ \E actor \in Range(scheduled_actors) : \A r \in roles : Top.cast[r] # actor

(* C4 *)

\* C4: every cast of the search gives each filled role an actor of that
\* role's list in actors.csv and no actor two roles; every accepted cast
\* has no vacant role.
C4_InjectiveEligible ==
  /\ \A d \in DOMAIN stack :
       /\ Injective(stack[d].cast)
       /\ \A r \in roles :
            stack[d].cast[r] # None =>
              stack[d].cast[r] \in Range(role_actors_in[r])
  /\ \A k \in DOMAIN Accepted :
       /\ Vacant(Accepted[k]) = {}
       /\ Injective(Accepted[k])
       /\ \A r \in roles : Accepted[k][r] \in Range(role_actors_in[r])

\* two roles share an eligible actor and a cast for both was returned
C4_Witness ==
  /\ pc = "done"
  /\ Cardinality(roles) = 2
  /\ \E actor \in Actors : \A r \in roles : actor \in Range(role_actors_in[r])

(* C5 *)

\* every call below the outermost has one vacant role fewer than its
\* caller, and the calls nest no deeper than the number of roles
C5_OneFewerVacant ==
  /\ \A d \in DOMAIN stack :
       d > 1 => Cardinality(Vacant(stack[d].cast))
                  = Cardinality(Vacant(stack[d - 1].cast)) - 1
  /\ Len(stack) <= Cardinality(roles) + 1

RECURSIVE CallBound(_)
\* a bound on the steps of a call that is given v vacant roles, its
\* return included: one step to enter, one to return and, for v > 0, at
\* most one candidate per actor, each a step and a call with v - 1
CallBound(v) ==
  IF v <= 0 THEN 2
  ELSE 2 + Cardinality(Actors) * (1 + CallBound(v - 1))

\* the steps frame d still has to take, the calls it will make included
FrameRank(d) ==
  LET f == stack[d]
      v == Cardinality(Vacant(f.cast))
      left == Len(ActorsOf(d)) - f.i + (IF d = Depth THEN 1 ELSE 0)
  IN  CASE f.pc = "entry" -> CallBound(v)
        [] f.pc = "loop" -> left * (1 + CallBound(v - 1)) + 1
        [] f.pc = "return" -> 1

RECURSIVE StackRank(_)
StackRank(d) == IF d = 0 THEN 0 ELSE StackRank(d - 1) + FrameRank(d)

\* a bound on the steps the program still has to take
StepsLeft ==
  CASE pc = "validate" -> 3 + CallBound(Cardinality(roles))
    [] pc = "convenience" -> 2 + CallBound(Cardinality(roles))
    [] pc = "call" -> 1 + CallBound(Cardinality(roles))
    [] pc = "search" -> StackRank(Depth)
    [] OTHER -> 0

\* C5: each recursive call receives a cast with exactly one vacant role
\* fewer than its caller's, the recursion is never deeper than the number
\* of roles, and the search terminates: every step lowers a bound on the
\* steps still to take, a natural number, and the program never stops
\* inside the search, so the outermost call returns to main.
C5_Terminates ==
  /\ []C5_OneFewerVacant
  /\ [][StepsLeft' < StepsLeft /\ StepsLeft' >= 0]_vars
  /\ [](pc = "search" => ENABLED Next)

\* the recursion is as deep as it gets: every role of a two-role cast is
\* filled
C5_Witness ==
  /\ pc = "search"
  /\ Cardinality(roles) = 2
  /\ Len(stack) = 3

(* C6 *)

\* C6, as claimed: when the search stands at a vacant role whose list of
\* actors is empty, the program has failed with an error.
C6_FailsFast ==
  \A d \in DOMAIN stack : DeadEnd(d) => pc = "error"

\* C6, amended: a list that is empty in actors.csv is an error of main
\* before the search starts; a list emptied during the search is a dead
\* end: the call accepts nothing, keeps the best score it was given and
\* the program goes on searching.
C6_DeadEndReturns ==
  /\ pc \in {"convenience", "call", "search", "done", "nocasts"} =>
       \A r \in roles : role_actors_in[r] # <<>>
  /\ \A d \in DOMAIN stack :
       DeadEnd(d) => /\ pc = "search"
                     /\ stack[d].possible_casts = <<>>
                     /\ stack[d].best_score = stack[d].best_score_in

\* the search stands at a role whose actors were all placed earlier
C6_Witness ==
  /\ pc = "search"
  /\ DeadEnd(Depth)
  /\ role_actors_in[Top.role] # <<>>

(* C7 *)

\* C7, as claimed: when a call returns, the table it was given is as it
\* was when the call began, order of the lists included, and so is main's
\* table after the search.
C7_InputsUntouched ==
  /\ \A d \in DOMAIN stack :
       Returning(stack[d], d) => role_actor[d] = stack[d].role_actor_in
  /\ Done => role_actor[1] = role_actors_in

(* C8 *)

C9_DescendingProduct ==
  \A d \in DOMAIN stack :
    stack[d].pc = "loop" =>
      \A j, k \in 1..Len(ActorsOf(d)) :
        (j < k /\ k <= stack[d].i) =>
          role_actor_skill[stack[d].role][ActorsOf(d)[j]]
              * role_actor_convenience[stack[d].role][ActorsOf(d)[j]]
            >= role_actor_skill[stack[d].role][ActorsOf(d)[k]]
              * role_actor_convenience[stack[d].role][ActorsOf(d)[k]]

(* C10 *)

\* C10: the running best score is the maximum score of the casts accepted
\* so far (0 if none); the accepted casts are in non-decreasing order of
\* score, so the last one attains the best score.
C10_RunningBest ==
  (pc = "search" \/ Done) =>
    /\ NonDecreasing(Accepted)
    /\ Accepted = <<>> => RunningBest = 0
    /\ Accepted # <<>> =>
         /\ RunningBest = ScoreCast(Accepted[Len(Accepted)])
         /\ \A k \in DOMAIN Accepted : ScoreCast(Accepted[k]) <= RunningBest

\* two casts of different scores were returned
C10_Witness ==
  /\ pc = "done"
  /\ Len(possible_casts) >= 2
  /\ ScoreCast(possible_casts[1]) < ScoreCast(possible_casts[Len(possible_casts)])

====
